---- MODULE Spec2Model ----
(***************************************************************************)
(* A model of the jigsaw generator (makejigsaw.c) and of the solution      *)
(* validator (validatejigsaw.c).                                           *)
(*                                                                         *)
(* The generator fills a grid of gw x gh samples with piece numbers        *)
(* (initgrid), resolves the interlocking seams at random (dogrid) and      *)
(* writes every piece as a rotated bitmap file together with a solution    *)
(* file (outputpbm).  The validator replays a solution file onto an empty  *)
(* grid (getgrid) and reports whether the grid is covered (testgrid).      *)
(***************************************************************************)
EXTENDS Integers, Sequences, FiniteSets, TLC

VARIABLES
    width,      \* puzzle width in pieces              (argv[1])
    height,     \* puzzle height in pieces             (argv[2])
    edge,       \* side of a piece bitmap              (argv[3])
    pc,         \* position of the running program
    grid,       \* makejigsaw: the grid of piece numbers
    ik,         \* dogrid: column loop counter
    jk,         \* dogrid: row loop counter
    piece,      \* outputpbm: piece[] array of file numbers
    n,          \* outputpbm: loop counter over pieces
    files,      \* the directory: file number -> body of the .pbm file
    solution,   \* solution.txt: sequence of <<file number, angle>> lines
    vsol,       \* the solution.txt handed to validatejigsaw
    vgrid,      \* validatejigsaw: the memory at and behind its grid
    vpiece,     \* getgrid: `piece', the line counter
    hits,       \* history: per cell, how many 1 bits getgrid mapped to it
    out         \* validatejigsaw: what was printed and the exit status

vars == <<width, height, edge, pc, grid, ik, jk, piece, n, files, solution,
          vsol, vgrid, vpiece, hits, out>>

(***************************************************************************)
(* Bounds of the model.                                                    *)
(***************************************************************************)
MaxWidth == 3
MaxHeight == 3
MaxEdge == 3
\* largest number of rand() calls of dogrid that is explored exhaustively
MaxDraws == 20
\* largest number of pieces for which outputpbm and getgrid are explored
MaxPieces == 6
\* number of fixed rand() sequences used to make the grids outputpbm starts from
NumPatterns == 2
\* largest puzzle (in pieces) and grid (in cells) replayed against solution
\* files that are not the generator's
MaxValPieces == 4
MaxValCells == 25
\* a solution file under test has at most this many lines more than pieces
MaxExtra == 1

(***************************************************************************)
(* Program constants.                                                      *)
(***************************************************************************)
MAX_WIDTH == 500
MAX_HEIGHT == 500
MAX_EDGE == 8
\* the value main() stores in every cell before any piece is placed
Sentinel == 0 - 1

(***************************************************************************)
(* Geometry.                                                               *)
(***************************************************************************)
\* main(): the command line is accepted
ValidArgs(w, h, e) ==
    /\ w >= 2 /\ h >= 2 /\ e >= 2
    /\ w <= MAX_WIDTH /\ h <= MAX_HEIGHT /\ e <= MAX_EDGE

GridWidth(w, e) == (w * (e - 1)) + 1
GridHeight(h, e) == (h * (e - 1)) + 1
GridSize(w, h, e) == GridWidth(w, e) * GridHeight(h, e)

\* number of rand() calls made by dogrid
NumDraws(w, h, e) ==
    ((w - 1) * GridHeight(h, e)) + ((h - 1) * GridWidth(w, e))
        + ((w - 1) * (h - 1))

Max(a, b) == IF a >= b THEN a ELSE b

\* rows of memory, counted in grid rows from the start of the grid, that the
\* windows of positions 0..pmax can touch (the grid itself has gh rows)
MemRows(w, h, e, pmax) ==
    Max(GridHeight(h, e), ((pmax \div h) * (e - 1)) + e)

\* what the words behind the malloc'ed grid may hold: main() never sets them
JunkVals(w, h) == {Sentinel, (w * h) - 1}

\* main(): the grid is allocated and every cell of it is set to -1; the
\* words behind the allocation hold whatever the heap holds
FreshMem(w, h, e, pmax, junk) ==
    [x \in 0..((GridWidth(w, e) * MemRows(w, h, e, pmax)) - 1) |->
        IF x < GridSize(w, h, e) THEN Sentinel ELSE junk]

\* the cells of the grid proper
Cells(w, h, e) == 0..(GridSize(w, h, e) - 1)

(***************************************************************************)
(* makejigsaw.c: initgrid                                                  *)
(***************************************************************************)
\* initgrid without its four tests: every iteration assigns
InitSetsAll(w, h, e, i, j, lik, ljk) == TRUE

\* the loop nest of initgrid assigns at (i, j, ik, jk) unless it `continue's
InitSets(w, h, e, i, j, lik, ljk) ==
    /\ ~((lik = 0) /\ (i # 0))
    /\ ~((ljk = 0) /\ (j # 0))
    /\ ~((lik = e - 1) /\ (i # w - 1))
    /\ ~((ljk = e - 1) /\ (j # h - 1))

\* position of an iteration in the order of the loop nest j, i, jk, ik
InitOrder(w, e, i, j, lik, ljk) == ((((j * w) + i) * e + ljk) * e) + lik

InitIters(w, h, e) ==
    { it \in (0..(w - 1)) \X (0..(h - 1)) \X (0..(e - 1)) \X (0..(e - 1)) :
        InitSets(w, h, e, it[1], it[2], it[3], it[4]) }

\* the grid after initgrid: each cell keeps the value of the last iteration
\* that assigned it, or what it held before
initgrid(g, w, h, e) ==
    LET gw == 1 + (w * (e - 1))
        target(it) == (it[3] + (it[1] * (e - 1)))
                        + (((it[2] * (e - 1)) + it[4]) * gw)
        its == InitIters(w, h, e)
    IN [x \in DOMAIN g |->
          LET ws == { it \in its : target(it) = x }
          IN IF ws = {} THEN g[x]
             ELSE LET last == CHOOSE it \in ws : \A o \in ws :
                        InitOrder(w, e, o[1], o[2], o[3], o[4])
                          <= InitOrder(w, e, it[1], it[2], it[3], it[4])
                  IN last[1] + (last[2] * w)]

(***************************************************************************)
(* makejigsaw.c: dogrid, one cell at a time                                *)
(***************************************************************************)
\* top/bottom random selection of the first loop: r is the value of rand()
VertCell(g, x, r) ==
    [g EXCEPT ![x] = IF (r % 2) = 0 THEN g[x - 1] ELSE g[x + 1]]

\* left/right random selection of the second loop
HorizCell(g, x, r, gw) ==
    [g EXCEPT ![x] = IF (r % 2) = 0 THEN g[x - gw] ELSE g[x + gw]]

\* four way random selection of the third loop
CornerCell(g, x, r, gw) ==
    LET randdir == r % 4
    IN [g EXCEPT ![x] = IF randdir = 0 THEN g[x - 1]
                        ELSE IF randdir = 1 THEN g[x + 1]
                        ELSE IF randdir = 2 THEN g[x + gw]
                        ELSE g[x - gw]]

\* the values rand() can return, as far as `% 2' and `% 4' can tell
RandDir == 0..3

(***************************************************************************)
(* The generator as a state machine: main, initgrid, dogrid.               *)
(***************************************************************************)
NoOutput == [msg |-> "none", a |-> 0, b |-> 0, exit |-> 0 - 1]

\* the puzzles whose seams are explored with every outcome of rand()
GenConfigs ==
    { c \in (2..MaxWidth) \X (2..MaxHeight) \X (2..MaxEdge) :
        /\ ValidArgs(c[1], c[2], c[3])
        /\ NumDraws(c[1], c[2], c[3]) <= MaxDraws }

\* makejigsaw has parsed its arguments, allocated the grid and cleared it
InitGen ==
    /\ \E c \in GenConfigs : width = c[1] /\ height = c[2] /\ edge = c[3]
    /\ pc = "initgrid"
    /\ \E junk \in JunkVals(width, height) :
          grid = FreshMem(width, height, edge, (width * height) - 1, junk)
    /\ ik = 0 /\ jk = 0
    /\ piece = <<>> /\ n = 0
    /\ files = <<>> /\ solution = <<>>
    /\ vsol = <<>> /\ vgrid = <<>> /\ vpiece = 0 /\ hits = <<>>
    /\ out = NoOutput

\* main() calls initgrid(); dogrid() then starts its first loop
GenInitGrid ==
    /\ pc = "initgrid"
    /\ grid' = initgrid(grid, width, height, edge)
    /\ pc' = "vert"
    /\ ik' = edge - 1
    /\ jk' = 0
    /\ UNCHANGED <<width, height, edge, piece, n, files, solution,
                   vsol, vgrid, vpiece, hits, out>>

\* one iteration of the first loop nest of dogrid
DoVert ==
    LET gw == 1 + (width * (edge - 1))
        gh == 1 + (height * (edge - 1))
        step == edge - 1
        x == ik + (jk * gw)
    IN /\ pc = "vert"
       /\ \E r \in RandDir : grid' = VertCell(grid, x, r)
       /\ IF jk + 1 < gh
            THEN /\ jk' = jk + 1 /\ ik' = ik /\ pc' = pc
            ELSE IF ik + step < gw - 1
                   THEN /\ ik' = ik + step /\ jk' = 0 /\ pc' = pc
                   ELSE /\ pc' = "horiz" /\ jk' = step /\ ik' = 0
       /\ UNCHANGED <<width, height, edge, piece, n, files, solution,
                      vsol, vgrid, vpiece, hits, out>>

\* one iteration of the second loop nest of dogrid
DoHoriz ==
    LET gw == 1 + (width * (edge - 1))
        gh == 1 + (height * (edge - 1))
        step == edge - 1
        x == ik + (jk * gw)
    IN /\ pc = "horiz"
       /\ \E r \in RandDir : grid' = HorizCell(grid, x, r, gw)
       /\ IF ik + 1 < gw
            THEN /\ ik' = ik + 1 /\ jk' = jk /\ pc' = pc
            ELSE IF jk + step < gh - 1
                   THEN /\ jk' = jk + step /\ ik' = 0 /\ pc' = pc
                   ELSE /\ pc' = "corner" /\ jk' = step /\ ik' = step
       /\ UNCHANGED <<width, height, edge, piece, n, files, solution,
                      vsol, vgrid, vpiece, hits, out>>

\* one iteration of the third loop nest of dogrid; main() then calls outputpbm
DoCorner ==
    LET gw == 1 + (width * (edge - 1))
        gh == 1 + (height * (edge - 1))
        step == edge - 1
        x == ik + (jk * gw)
    IN /\ pc = "corner"
       /\ \E r \in RandDir : grid' = CornerCell(grid, x, r, gw)
       /\ IF ik + step < gw - 1
            THEN /\ ik' = ik + step /\ jk' = jk /\ pc' = pc
            ELSE IF jk + step < gh - 1
                   THEN /\ jk' = jk + step /\ ik' = step /\ pc' = pc
                   ELSE /\ pc' = "outputpbm" /\ jk' = 0 /\ ik' = 0
       /\ UNCHANGED <<width, height, edge, piece, n, files, solution,
                      vsol, vgrid, vpiece, hits, out>>

NextGen == GenInitGrid \/ DoVert \/ DoHoriz \/ DoCorner

SpecGen == InitGen /\ [][NextGen]_vars

\* C2: after initgrid followed by dogrid every grid cell holds a piece index
\* in [0, width*height); no cell still holds the sentinel -1.
C2_Completeness ==
    (pc = "outputpbm") =>
        \A x \in Cells(width, height, edge) :
            grid[x] >= 0 /\ grid[x] < width * height

(***************************************************************************)
(* Fixed rand() sequences: Stream(p, k) is the value of call number k.     *)
(* They give the later stages reachable grids and piece arrays to start    *)
(* from without exploring every outcome of the earlier stages again.       *)
(***************************************************************************)
Stream(p, k) == ((p * 37) + (k * k * (p + 1)) + (k * 11) + (k \div 3)) % 1024

\* first loop nest of dogrid from (lik, ljk) on; call number k is drawn next
RECURSIVE RunVert(_, _, _, _, _, _, _, _)
RunVert(g, lik, ljk, k, p, gw, gh, step) ==
    IF ~(lik < gw - 1) THEN g
    ELSE LET g2 == VertCell(g, lik + (ljk * gw), Stream(p, k))
         IN IF ljk + 1 < gh
              THEN RunVert(g2, lik, ljk + 1, k + 1, p, gw, gh, step)
              ELSE RunVert(g2, lik + step, 0, k + 1, p, gw, gh, step)

\* second loop nest of dogrid
RECURSIVE RunHoriz(_, _, _, _, _, _, _, _)
RunHoriz(g, lik, ljk, k, p, gw, gh, step) ==
    IF ~(ljk < gh - 1) THEN g
    ELSE LET g2 == HorizCell(g, lik + (ljk * gw), Stream(p, k), gw)
         IN IF lik + 1 < gw
              THEN RunHoriz(g2, lik + 1, ljk, k + 1, p, gw, gh, step)
              ELSE RunHoriz(g2, 0, ljk + step, k + 1, p, gw, gh, step)

\* third loop nest of dogrid
RECURSIVE RunCorner(_, _, _, _, _, _, _, _)
RunCorner(g, lik, ljk, k, p, gw, gh, step) ==
    IF ~(ljk < gh - 1) THEN g
    ELSE LET g2 == CornerCell(g, lik + (ljk * gw), Stream(p, k), gw)
         IN IF lik + step < gw - 1
              THEN RunCorner(g2, lik + step, ljk, k + 1, p, gw, gh, step)
              ELSE RunCorner(g2, step, ljk + step, k + 1, p, gw, gh, step)

\* dogrid on rand() sequence p
dogrid(g, w, h, e, p) ==
    LET gw == 1 + (w * (e - 1))
        gh == 1 + (h * (e - 1))
        step == e - 1
        k1 == (w - 1) * gh
        k2 == k1 + ((h - 1) * gw)
        g1 == RunVert(g, step, 0, 0, p, gw, gh, step)
        g2 == RunHoriz(g1, 0, step, k1, p, gw, gh, step)
    IN RunCorner(g2, step, step, k2, p, gw, gh, step)

\* the grid main() hands to outputpbm on rand() sequence p
GridOf(w, h, e, junk, p) ==
    dogrid(initgrid(FreshMem(w, h, e, (w * h) - 1, junk), w, h, e), w, h, e, p)

(***************************************************************************)
(* makejigsaw.c: outputpbm                                                 *)
(***************************************************************************)
NL == "\n"

\* "number the pieces"
NumberPieces(np) == [m \in 0..(np - 1) |-> m]

\* the swap with its last assignment lost: piece[n] keeps its value
SwapPieceLost(pa, m, r, np) ==
    LET newloc == r % np
    IN [pa EXCEPT ![newloc] = pa[m]]

\* one iteration of "rearrange them": r is the value of rand()
SwapPiece(pa, m, r, np) ==
    LET newloc == r % np
        j == pa[newloc]
        p1 == [pa EXCEPT ![newloc] = pa[m]]
    IN [p1 EXCEPT ![m] = j]

\* the whole rearranging loop on rand() sequence p, calls k0, k0+1, ...
RECURSIVE RunShuffle(_, _, _, _, _)
RunShuffle(pa, m, np, p, k0) ==
    IF ~(m < np) THEN pa
    ELSE RunShuffle(SwapPiece(pa, m, Stream(p, k0 + m), np), m + 1, np, p, k0)

\* "get to the target piece": column and row of piece m, as outputpbm computes
TargetI(m, w) == m % w
TargetJ(m, h) == m \div h

\* outputpbm with a transposition in place of the quarter turn
PbmXTransposed(randrot, lik, ljk, is, js, gw, e) ==
    IF randrot = 0 THEN lik + is + ((ljk + js) * gw)
    ELSE IF randrot = 1 THEN ljk + is + ((lik + js) * gw)
    ELSE IF randrot = 2 THEN e - 1 - lik + is + (((e - 1 - ljk) + js) * gw)
    ELSE e - 1 - ljk + is + ((lik + js) * gw)

\* the grid index outputpbm selects for bit (lik, ljk) under rotation randrot
PbmX(randrot, lik, ljk, is, js, gw, e) ==
    IF randrot = 0 THEN lik + is + ((ljk + js) * gw)
    ELSE IF randrot = 1 THEN ljk + is + (((e - 1 - lik) + js) * gw)
    ELSE IF randrot = 2 THEN e - 1 - lik + is + (((e - 1 - ljk) + js) * gw)
    ELSE e - 1 - ljk + is + ((lik + js) * gw)

\* the characters outputpbm writes after the three header lines of piece m:
\* edge rows of edge characters, each row ended by a newline
PbmBody(g, m, randrot, w, h, e) ==
    LET gw == (w * (e - 1)) + 1
        i == TargetI(m, w)
        j == TargetJ(m, h)
        is == i * (e - 1)
        js == j * (e - 1)
    IN [c \in 1..(e * (e + 1)) |->
          LET ljk == (c - 1) \div (e + 1)
              lik == (c - 1) % (e + 1)
          IN IF lik = e THEN NL
             ELSE IF g[PbmX(randrot, lik, ljk, is, js, gw, e)] = m
                  THEN "1" ELSE "0"]

\* every piece written to one and the same file p0000.pbm
WriteFileOne(dir, name, body) == [f \in {0} |-> body]

\* the directory after one more piece file has been written
WriteFile(dir, name, body) ==
    [f \in (DOMAIN dir) \cup {name} |-> IF f = name THEN body ELSE dir[f]]

\* the piece loop of outputpbm from piece m on, on rand() sequence p
RECURSIVE RunPieces(_, _, _, _, _, _, _, _, _, _)
RunPieces(dir, sol, g, pa, m, w, h, e, p, k0) ==
    IF ~(m < w * h) THEN [files |-> dir, solution |-> sol]
    ELSE LET randrot == Stream(p, k0 + m) % 4
         IN RunPieces(WriteFile(dir, pa[m], PbmBody(g, m, randrot, w, h, e)),
                      Append(sol, <<pa[m], randrot * 90>>),
                      g, pa, m + 1, w, h, e, p, k0)

\* the puzzles for which outputpbm and the validator are explored
PieceConfigs == { c \in GenConfigs : c[1] * c[2] <= MaxPieces }

Streams == 0..(NumPatterns - 1)

\* the piece array outputpbm has built on rand() sequence p
PiecesOf(w, h, e, p) ==
    RunShuffle(NumberPieces(w * h), 0, w * h, p, NumDraws(w, h, e))

\* the piece files and solution.txt of a whole run on rand() sequence p
OutputOf(w, h, e, junk, p) ==
    RunPieces(<<>>, <<>>, GridOf(w, h, e, junk, p), PiecesOf(w, h, e, p), 0,
              w, h, e, p, NumDraws(w, h, e) + (w * h))

\* outputpbm: the piece array is allocated and numbered
OutNumber ==
    /\ pc = "outputpbm"
    /\ piece' = NumberPieces(height * width)
    /\ n' = 0
    /\ pc' = "shuffle"
    /\ UNCHANGED <<width, height, edge, grid, ik, jk, files, solution,
                   vsol, vgrid, vpiece, hits, out>>

\* outputpbm: one iteration of the rearranging loop; after the last one
\* solution.txt is opened for writing
Shuffle ==
    LET npiece == height * width
    IN /\ pc = "shuffle"
       /\ \E r \in 0..(npiece - 1) : piece' = SwapPiece(piece, n, r, npiece)
       /\ IF n + 1 < npiece
            THEN /\ n' = n + 1 /\ pc' = pc /\ UNCHANGED solution
            ELSE /\ n' = 0 /\ pc' = "pieces" /\ solution' = <<>>
       /\ UNCHANGED <<width, height, edge, grid, ik, jk, files,
                      vsol, vgrid, vpiece, hits, out>>

\* outputpbm: one iteration of the loop that writes a piece file and its
\* line of solution.txt
OutputPiece ==
    /\ pc = "pieces"
    /\ \E randrot \in 0..3 :
         /\ files' = WriteFile(files, piece[n],
                               PbmBody(grid, n, randrot, width, height, edge))
         /\ solution' = Append(solution, <<piece[n], randrot * 90>>)
    /\ IF n + 1 < height * width
         THEN /\ n' = n + 1 /\ pc' = pc
         ELSE /\ n' = n + 1 /\ pc' = "outputsvg"
    /\ UNCHANGED <<width, height, edge, grid, ik, jk, piece,
                   vsol, vgrid, vpiece, hits, out>>

\* outputpbm has been called on a grid dogrid can leave
InitShuffle ==
    /\ \E c \in PieceConfigs : width = c[1] /\ height = c[2] /\ edge = c[3]
    /\ \E junk \in JunkVals(width, height), p \in Streams :
          grid = GridOf(width, height, edge, junk, p)
    /\ pc = "outputpbm"
    /\ ik = 0 /\ jk = 0
    /\ piece = <<>> /\ n = 0
    /\ files = <<>> /\ solution = <<>>
    /\ vsol = <<>> /\ vgrid = <<>> /\ vpiece = 0 /\ hits = <<>>
    /\ out = NoOutput

NextShuffle == OutNumber \/ Shuffle

SpecShuffle == InitShuffle /\ [][NextShuffle]_vars

\* outputpbm has rearranged the pieces and opened solution.txt
InitPieces ==
    /\ \E c \in PieceConfigs : width = c[1] /\ height = c[2] /\ edge = c[3]
    /\ \E junk \in JunkVals(width, height), p \in Streams :
          /\ grid = GridOf(width, height, edge, junk, p)
          /\ piece = PiecesOf(width, height, edge, p)
    /\ pc = "pieces"
    /\ ik = 0 /\ jk = 0
    /\ n = 0
    /\ files = <<>> /\ solution = <<>>
    /\ vsol = <<>> /\ vgrid = <<>> /\ vpiece = 0 /\ hits = <<>>
    /\ out = NoOutput

NextPieces == OutputPiece

SpecPieces == InitPieces /\ [][NextPieces]_vars

(***************************************************************************)
(* validatejigsaw.c                                                        *)
(***************************************************************************)
\* initgrid of the validator: it stores -1 at (j * width) + i
vinitgrid(mem, w, h, e) ==
    LET gw == 1 + (w * (e - 1))
        gh == 1 + (h * (e - 1))
        touched == { (j * w) + i : i \in 0..(gw - 1), j \in 0..(gh - 1) }
    IN [x \in DOMAIN mem |-> IF x \in touched THEN Sentinel ELSE mem[x]]

\* getgrid with the formulas of 90 and 270 degrees exchanged
GetXSwapped(angle, lik, ljk, is, js, gw, e) ==
    IF angle = 0 THEN lik + is + ((ljk + js) * gw)
    ELSE IF angle = 90 THEN e - 1 - ljk + is + ((lik + js) * gw)
    ELSE IF angle = 180 THEN e - 1 - lik + is + (((e - 1 - ljk) + js) * gw)
    ELSE ljk + is + (((e - 1 - lik) + js) * gw)

\* the grid index getgrid computes for bit (lik, ljk) of a line with `angle'
GetX(angle, lik, ljk, is, js, gw, e) ==
    IF angle = 0 THEN lik + is + ((ljk + js) * gw)
    ELSE IF angle = 90 THEN ljk + is + (((e - 1 - lik) + js) * gw)
    ELSE IF angle = 180 THEN e - 1 - lik + is + (((e - 1 - ljk) + js) * gw)
    ELSE e - 1 - ljk + is + ((lik + js) * gw)

\* "get to the target piece": column and row of line number m, as getgrid
\* computes them
PlaceI(m, w) == m % w
PlaceJ(m, h) == m \div h

\* the grid index of bit number k (row by row) of line number m
BitX(m, angle, k, w, h, e) ==
    GetX(angle, k % e, k \div e, PlaceI(m, w) * (e - 1),
         PlaceJ(m, h) * (e - 1), (w * (e - 1)) + 1, e)

\* the character fread returns at offset c of a body, "eof" behind its end
CharAt(body, c) == IF c \in DOMAIN body THEN body[c] ELSE "eof"

\* the test for an earlier owner left out
OccupiedNever(mem, x) == FALSE

\* "is another piece on this spot?"
Occupied(mem, x) == mem[x] # Sentinel

\* one more 1 bit seen for cell x (the history counts up to 2)
Hit(hs, x) == [hs EXCEPT ![x] = IF hs[x] >= 1 THEN 2 ELSE 1]

\* getgrid claims the cells of one piece file, from bit k on.  The result is
\* the memory and how the scan ended: "ok" when all rows were read.  hs is
\* the history of the 1 bits looked at.  A bit whose cell lies behind the
\* grid reads and writes the memory behind the grid.
RECURSIVE ClaimBits(_, _, _, _, _, _, _, _, _)
ClaimBits(mem, hs, body, m, angle, k, w, h, e) ==
    IF k = e * e
      THEN [mem |-> mem, hits |-> hs, msg |-> "ok", a |-> 0, b |-> 0]
    ELSE
      LET x == BitX(m, angle, k, w, h, e)
          inchar == CharAt(body, ((k \div e) * (e + 1)) + (k % e) + 1)
          eol == CharAt(body, ((k \div e) * (e + 1)) + e + 1)
          rowend == (k % e) = e - 1
          bad == [mem |-> mem, hits |-> hs, msg |-> "badfile", a |-> 0,
                  b |-> 0]
      IN IF inchar = "eof" THEN bad
         ELSE IF inchar = "0"
           THEN IF rowend /\ eol # NL THEN bad
                ELSE ClaimBits(mem, hs, body, m, angle, k + 1, w, h, e)
         ELSE IF inchar = "1"
           THEN IF Occupied(mem, x)
                  THEN [mem |-> mem, hits |-> Hit(hs, x), msg |-> "collision",
                        a |-> mem[x], b |-> m]
                ELSE IF rowend /\ eol # NL
                  THEN [mem |-> [mem EXCEPT ![x] = m], hits |-> Hit(hs, x),
                        msg |-> "badfile", a |-> 0, b |-> 0]
                ELSE ClaimBits([mem EXCEPT ![x] = m], Hit(hs, x), body, m,
                               angle, k + 1, w, h, e)
         ELSE bad

\* the scan indexed as the validator's initgrid indexes: x = (j * width) + i
FirstMissingNarrow(mem, w, h, e) ==
    LET gw == 1 + (w * (e - 1))
        gh == 1 + (h * (e - 1))
        miss == { x \in { (j * w) + i : i \in 0..(gw - 1), j \in 0..(gh - 1) } :
                    mem[x] = Sentinel }
    IN IF miss = {} THEN 0 - 1
       ELSE CHOOSE x \in miss : \A y \in miss : x <= y

\* testgrid: the first unclaimed cell in the order of its scan, or none
FirstMissing(mem, w, h, e) ==
    LET gw == 1 + (w * (e - 1))
        gh == 1 + (h * (e - 1))
        miss == { x \in 0..((gw * gh) - 1) : mem[x] = Sentinel }
    IN IF miss = {} THEN 0 - 1
       ELSE CHOOSE x \in miss : \A y \in miss : x <= y

\* what testgrid prints and its exit status
testgrid(mem, w, h, e) ==
    LET gw == 1 + (w * (e - 1))
        x == FirstMissing(mem, w, h, e)
    IN IF x # 0 - 1
         THEN [msg |-> "missing", a |-> x \div gw, b |-> x % gw, exit |-> 1]
         ELSE [msg |-> "valid", a |-> 0, b |-> 0, exit |-> 0]

\* the angles a line of a solution file may carry
Angles == {0, 90, 180, 270}

\* validatejigsaw: main() calls initgrid(), then getgrid() opens solution.txt
ValInitGrid ==
    /\ pc = "vinitgrid"
    /\ vgrid' = vinitgrid(vgrid, width, height, edge)
    /\ pc' = "getgrid"
    /\ UNCHANGED <<width, height, edge, grid, ik, jk, piece, n, files,
                   solution, vsol, vpiece, hits, out>>

\* getgrid reads the line <<fname, angle>> and places its piece file
GetLine(fname, angle) ==
    IF fname \notin DOMAIN files
      THEN /\ out' = [msg |-> "nofile", a |-> 0, b |-> 0, exit |-> 1]
           /\ pc' = "exit"
           /\ UNCHANGED <<vgrid, vpiece, hits>>
      ELSE LET res == ClaimBits(vgrid, hits, files[fname], vpiece, angle, 0,
                                width, height, edge)
           IN /\ vgrid' = res.mem
              /\ hits' = res.hits
              /\ IF res.msg = "ok"
                   THEN /\ vpiece' = vpiece + 1
                        /\ UNCHANGED <<pc, out>>
                   ELSE /\ out' = [msg |-> res.msg, a |-> res.a,
                                   b |-> res.b, exit |-> 1]
                        /\ pc' = "exit"
                        /\ UNCHANGED vpiece

\* a line of a solution file is what one call of fscanf("%s %d") takes from
\* it: <<file number, angle>>, with NoAngle for the angle when no integer
\* follows the name (the conversion fails, fscanf returns 1 and the text is
\* left for the next call)
NoAngle == 0 - 1

\* a name no piece file has
NoSuchFile == 0 - 2

\* the values `angle' can hold after the fscanf of line m of sol: a failed
\* conversion leaves the value of the line before, and on the first line the
\* variable was never set; the if chain of getgrid treats every value as 0,
\* 90, 180 or (all others) 270
RECURSIVE AngleRead(_, _)
AngleRead(sol, m) ==
    IF sol[m][2] # NoAngle THEN {sol[m][2]}
    ELSE IF m = 1 THEN Angles
    ELSE AngleRead(sol, m - 1)

\* getgrid: one turn of its loop on the solution file vsol
GetGrid ==
    /\ pc = "getgrid"
    /\ vpiece < Len(vsol)
    /\ \E angle \in AngleRead(vsol, vpiece + 1) :
          GetLine(vsol[vpiece + 1][1], angle)
    /\ UNCHANGED <<width, height, edge, grid, ik, jk, piece, n, files,
                   solution, vsol>>

\* getgrid returning before the end of vsol
GetGridEofEarly ==
    /\ pc = "getgrid"
    /\ pc' = "testgrid"
    /\ UNCHANGED <<width, height, edge, grid, ik, jk, piece, n, files,
                   solution, vsol, vgrid, vpiece, hits, out>>

\* getgrid: fscanf finds the end of vsol; main() calls testgrid()
GetGridEof ==
    /\ pc = "getgrid"
    /\ vpiece = Len(vsol)
    /\ pc' = "testgrid"
    /\ UNCHANGED <<width, height, edge, grid, ik, jk, piece, n, files,
                   solution, vsol, vgrid, vpiece, hits, out>>

\* getgrid: one turn of its loop on a solution file that is not known in
\* advance; the line read is any line naming one of the files
GetGridAny ==
    /\ pc = "getgrid"
    /\ vpiece < (width * height) + MaxExtra
    /\ \E fname \in DOMAIN files, angle \in Angles : GetLine(fname, angle)
    /\ UNCHANGED <<width, height, edge, grid, ik, jk, piece, n, files,
                   solution, vsol>>

\* testgrid scans the grid, prints the verdict and exits
TestGrid ==
    /\ pc = "testgrid"
    /\ out' = testgrid(vgrid, width, height, edge)
    /\ pc' = "exit"
    /\ UNCHANGED <<width, height, edge, grid, ik, jk, piece, n, files,
                   solution, vsol, vgrid, vpiece, hits>>

\* getgrid: fscanf finds the end of a solution file not known in advance
GetGridEofAny ==
    /\ pc = "getgrid"
    /\ pc' = "testgrid"
    /\ UNCHANGED <<width, height, edge, grid, ik, jk, piece, n, files,
                   solution, vsol, vgrid, vpiece, hits, out>>

(***************************************************************************)
(* The validator on the piece files of a generator run and any solution    *)
(* file of at most width*height + MaxExtra lines naming those files: what  *)
(* a solver program may hand in.                                           *)
(***************************************************************************)
ValConfigs ==
    { c \in PieceConfigs : /\ c[1] * c[2] <= MaxValPieces
                           /\ GridSize(c[1], c[2], c[3]) <= MaxValCells }

\* makejigsaw has run to its end; validatejigsaw has parsed its arguments,
\* allocated its grid and cleared it
InitVal ==
    /\ \E c \in ValConfigs : width = c[1] /\ height = c[2] /\ edge = c[3]
    /\ \E junk \in JunkVals(width, height), p \in Streams :
          LET o == OutputOf(width, height, edge, junk, p)
          IN /\ grid = GridOf(width, height, edge, junk, p)
             /\ piece = PiecesOf(width, height, edge, p)
             /\ files = o.files
             /\ solution = o.solution
    /\ \E junk \in JunkVals(width, height) :
          vgrid = FreshMem(width, height, edge,
                           (width * height) + MaxExtra - 1, junk)
    /\ hits = [x \in DOMAIN vgrid |-> 0]
    /\ pc = "vinitgrid"
    /\ ik = 0 /\ jk = 0 /\ n = width * height
    /\ vsol = <<>>
    /\ vpiece = 0
    /\ out = NoOutput

NextVal == ValInitGrid \/ GetGridAny \/ GetGridEofAny \/ TestGrid

SpecVal == InitVal /\ [][NextVal]_vars

(***************************************************************************)
(* The validator on the files of a generator run and a solution file made  *)
(* from the generator's: the same, one line removed, or the whole puzzle   *)
(* turned.                                                                 *)
(***************************************************************************)
\* solution file sol without its line number d (counted from 1)
Dropped(sol, d) ==
    [m \in 1..(Len(sol) - 1) |-> IF m < d THEN sol[m] ELSE sol[m + 1]]

\* the position (column, row) of the solved puzzle that comes to lie at
\* (i, j) when the whole puzzle is turned counterclockwise by r degrees
TurnedFrom(i, j, w, h, r) ==
    IF r = 90 THEN <<w - 1 - j, i>>
    ELSE IF r = 180 THEN <<w - 1 - i, h - 1 - j>>
    ELSE <<j, w - 1 - i>>

\* the solution file that lists the turned puzzle row by row
Turned(sol, w, h, r) ==
    [m \in 1..Len(sol) |->
        LET from == TurnedFrom((m - 1) % w, (m - 1) \div w, w, h, r)
            old == sol[(from[1] + (from[2] * w)) + 1]
        IN <<old[1], (old[2] + r) % 360>>]

\* solution file sol with the angle of line d deleted
NoAngleAt(sol, d) ==
    [m \in 1..Len(sol) |-> IF m = d THEN <<sol[m][1], NoAngle>> ELSE sol[m]]

\* solution file sol with the angle of line d replaced by a word that is no
\* number: the next fscanf takes the word for a file name, and what follows
\* the word is the name of the next line, no number either
WordAngleAt(sol, d) ==
    [m \in 1..(Len(sol) + 1) |->
        IF m < d THEN sol[m]
        ELSE IF m = d THEN <<sol[m][1], NoAngle>>
        ELSE IF m = d + 1
               THEN <<NoSuchFile, IF d = Len(sol) THEN 0 ELSE NoAngle>>
        ELSE sol[m - 1]]

\* solution file sol with line d naming a file that does not exist
NoFileAt(sol, d) ==
    [m \in 1..Len(sol) |-> IF m = d THEN <<NoSuchFile, sol[m][2]>> ELSE sol[m]]

\* an angle that is an integer but none of 0, 90, 180, 270
OddAngle == 45

\* solution file sol with the angle of line d replaced by OddAngle
OddAngleAt(sol, d) ==
    [m \in 1..Len(sol) |-> IF m = d THEN <<sol[m][1], OddAngle>> ELSE sol[m]]

\* the ways the solution file under test is made from the generator's
Edits(w, h) ==
    {<<"same", 0>>}
      \cup { <<"drop", d>> : d \in 1..(w * h) }
      \cup { <<"turn", r>> : r \in IF w = h THEN {90, 180, 270} ELSE {180} }
      \cup { <<"noangle", d>> : d \in 1..(w * h) }
      \cup { <<"wordangle", d>> : d \in 1..(w * h) }
      \cup { <<"nofile", d>> : d \in 1..(w * h) }
      \cup { <<"oddangle", d>> : d \in 1..(w * h) }

Edited(sol, w, h, ed) ==
    IF ed[1] = "same" THEN sol
    ELSE IF ed[1] = "drop" THEN Dropped(sol, ed[2])
    ELSE IF ed[1] = "turn" THEN Turned(sol, w, h, ed[2])
    ELSE IF ed[1] = "noangle" THEN NoAngleAt(sol, ed[2])
    ELSE IF ed[1] = "wordangle" THEN WordAngleAt(sol, ed[2])
    ELSE IF ed[1] = "oddangle" THEN OddAngleAt(sol, ed[2])
    ELSE NoFileAt(sol, ed[2])

\* makejigsaw has run to its end; validatejigsaw has been started on its
\* piece files and on an edited solution file
InitReplay ==
    /\ \E c \in PieceConfigs : width = c[1] /\ height = c[2] /\ edge = c[3]
    /\ \E junk \in JunkVals(width, height), p \in Streams :
          LET o == OutputOf(width, height, edge, junk, p)
          IN /\ grid = GridOf(width, height, edge, junk, p)
             /\ piece = PiecesOf(width, height, edge, p)
             /\ files = o.files
             /\ solution = o.solution
    /\ \E ed \in Edits(width, height) :
          vsol = Edited(solution, width, height, ed)
    /\ \E junk \in JunkVals(width, height) :
          vgrid = FreshMem(width, height, edge, (width * height) - 1, junk)
    /\ hits = [x \in DOMAIN vgrid |-> 0]
    /\ pc = "vinitgrid"
    /\ ik = 0 /\ jk = 0 /\ n = width * height
    /\ vpiece = 0
    /\ out = NoOutput

NextReplay == ValInitGrid \/ GetGrid \/ GetGridEof \/ TestGrid

SpecReplay == InitReplay /\ [][NextReplay]_vars

(***************************************************************************)
(* The validator on the generator's own solution file after one of the     *)
(* piece files has been damaged.                                           *)
(***************************************************************************)
\* the ways the rows of a piece file are damaged: a character cut out, a "0"
\* put in, a bit replaced by the character 2, the last row missing, one row
\* more
Damages(e) ==
    { <<"cut", c>> : c \in 1..(e * (e + 1)) }
      \cup { <<"put", c>> : c \in 1..(e * (e + 1)) }
      \cup { <<"bad", c>> : c \in { d \in 1..(e * (e + 1)) : d % (e + 1) # 0 } }
      \cup { <<"less", 0>>, <<"more", 0>> }

Damaged(body, e, dmg) ==
    IF dmg[1] = "cut"
      THEN [c \in 1..(Len(body) - 1) |->
              IF c < dmg[2] THEN body[c] ELSE body[c + 1]]
    ELSE IF dmg[1] = "put"
      THEN [c \in 1..(Len(body) + 1) |->
              IF c < dmg[2] THEN body[c]
              ELSE IF c = dmg[2] THEN "0" ELSE body[c - 1]]
    ELSE IF dmg[1] = "bad"
      THEN [body EXCEPT ![dmg[2]] = "2"]
    ELSE IF dmg[1] = "less"
      THEN [c \in 1..(Len(body) - (e + 1)) |-> body[c]]
    ELSE [c \in 1..(Len(body) + (e + 1)) |->
            IF c <= Len(body) THEN body[c]
            ELSE IF c = Len(body) + (e + 1) THEN NL ELSE "0"]

\* makejigsaw has run to its end, one piece file has been damaged and
\* validatejigsaw has been started on the generator's solution file
InitDamaged ==
    /\ \E c \in ValConfigs : width = c[1] /\ height = c[2] /\ edge = c[3]
    /\ \E junk \in JunkVals(width, height), p \in Streams :
          LET o == OutputOf(width, height, edge, junk, p)
          IN /\ grid = GridOf(width, height, edge, junk, p)
             /\ piece = PiecesOf(width, height, edge, p)
             /\ solution = o.solution
             /\ \E f \in DOMAIN o.files, dmg \in Damages(edge) :
                   files = [o.files EXCEPT
                              ![f] = Damaged(o.files[f], edge, dmg)]
    /\ vsol = solution
    /\ \E junk \in JunkVals(width, height) :
          vgrid = FreshMem(width, height, edge, (width * height) - 1, junk)
    /\ hits = [x \in DOMAIN vgrid |-> 0]
    /\ pc = "vinitgrid"
    /\ ik = 0 /\ jk = 0 /\ n = width * height
    /\ vpiece = 0
    /\ out = NoOutput

NextDamaged == ValInitGrid \/ GetGrid \/ GetGridEof \/ TestGrid

SpecDamaged == InitDamaged /\ [][NextDamaged]_vars

(***************************************************************************)
(* Properties.                                                             *)
(***************************************************************************)
\* the grid cells that hold piece number m
Owned(g, m, w, h, e) == { x \in Cells(w, h, e) : g[x] = m }

\* the cells of memory that placing `body' as line number m with `angle' on
\* cleared memory claims
Claimed(body, m, angle, w, h, e) ==
    LET res == ClaimBits(FreshMem(w, h, e, (w * h) - 1, Sentinel),
                         [x \in DOMAIN FreshMem(w, h, e, (w * h) - 1, Sentinel)
                            |-> 0],
                         body, m, angle, 0, w, h, e)
    IN { x \in DOMAIN res.mem : res.mem[x] = m }

\* the solution file under test is the generator's with one line removed
OneDropped == \E d \in 1..Len(solution) : vsol = Dropped(solution, d)

\* the solution file under test lists the generator's puzzle turned
WholeTurned ==
    \E r \in {90, 180, 270} :
        /\ (r = 180 \/ width = height)
        /\ vsol = Turned(solution, width, height, r)

\* C1: replaying the generator's own unmodified ledger with the generator's
\* piece bitmaps ends with the verdict valid, for every width, height, edge.
C1_OwnLedgerValid ==
    (pc = "exit" /\ vsol = solution) => (out.msg = "valid" /\ out.exit = 0)

\* C3: serializing piece m under an angle and deserializing the bitmap for
\* position m under the same angle onto an all-sentinel grid claims exactly
\* the grid cells that held m in the source grid.
C3_RoundTrip ==
    (pc \in {"pieces", "outputsvg"}) =>
        \A m \in 0..(n - 1) :
            Claimed(files[solution[m + 1][1]], m, solution[m + 1][2],
                    width, height, edge)
              = Owned(grid, m, width, height, edge)

\* C4: the validator prints valid and exits 0 if and only if no grid cell is
\* the image of a 1 bit of two entries and every grid cell is the image of a
\* 1 bit of some entry; otherwise it exits with status 1.
C4_ValidIffTiling ==
    (pc = "exit") =>
        /\ (out.msg = "valid" /\ out.exit = 0)
             <=> (\A x \in Cells(width, height, edge) : hits[x] = 1)
        /\ (out.msg # "valid") => out.exit = 1

\* C5: index m denotes column m mod width and row m div width in both
\* outputpbm and getgrid, which use the window based at
\* (i*(edge-1), j*(edge-1)).
C5_RowMajor ==
    (pc \in {"pieces", "outputsvg"}) =>
        \A m \in 0..(n - 1) :
            /\ TargetI(m, width) = m % width
            /\ TargetJ(m, height) = m \div width
            /\ PlaceI(m, width) = m % width
            /\ PlaceJ(m, height) = m \div width
            /\ m = TargetI(m, width) + (TargetJ(m, height) * width)
            /\ TargetJ(m, height) < height
            /\ PbmX(0, 0, 0, TargetI(m, width) * (edge - 1),
                    TargetJ(m, height) * (edge - 1),
                    GridWidth(width, edge), edge)
                 = BitX(m, 0, 0, width, height, edge)

\* C6: after the shuffle the array of file identifiers is a permutation of
\* [0, npiece): every identifier is assigned to exactly one position.
C6_Permutation ==
    (pc = "pieces") =>
        /\ DOMAIN piece = 0..((width * height) - 1)
        /\ \A id \in 0..((width * height) - 1) :
              Cardinality({ m \in DOMAIN piece : piece[m] = id }) = 1

\* the shuffle has ended on six pieces and has moved some of them
C6_Witness ==
    /\ pc = "pieces" /\ width * height = 6
    /\ piece[0] # 0 /\ piece[5] # 5

\* C7: when a 1 bit of an entry maps to a grid cell an earlier entry has
\* claimed, the validator stops at that bit with a collision error naming the
\* earlier owner and the current position, exits non-zero and never prints
\* valid.
C7_CollisionStops ==
    /\ \A x \in Cells(width, height, edge) :
          (hits # <<>> /\ hits[x] = 2) =>
              /\ pc = "exit"
              /\ out.msg = "collision" /\ out.exit = 1
              /\ out.a = vgrid[x] /\ out.a >= 0 /\ out.a < vpiece
              /\ out.b = vpiece
              /\ \A y \in Cells(width, height, edge) : hits[y] = 2 => y = x
    /\ (out.msg = "collision") => (pc = "exit" /\ out.exit # 0)

\* a third entry has run into a cell of an earlier one
C7_Witness ==
    /\ pc = "exit" /\ out.msg = "collision" /\ out.b = 2
    /\ \E x \in Cells(width, height, edge) : hits[x] = 2 /\ vgrid[x] = out.a

\* C8 as stated: with one entry removed from the generator's ledger the
\* validator ends with an invalid verdict that names the coordinate of an
\* unclaimed grid cell.
C8_DroppedNamesCell ==
    (pc = "exit" /\ OneDropped) =>
        /\ out.msg = "missing"
        /\ vgrid[(out.a * GridWidth(width, edge)) + out.b] = Sentinel

\* C8 as amended: with one entry removed from the generator's ledger the
\* validator never prints valid and never exits 0; when it reports a missing
\* bit, the cell it names is unclaimed.
C8_DroppedNotValid ==
    (pc = "exit" /\ OneDropped) =>
        /\ out.msg # "valid" /\ out.exit # 0
        /\ (out.msg = "missing") =>
              /\ out.a \in 0..(GridHeight(height, edge) - 1)
              /\ out.b \in 0..(GridWidth(width, edge) - 1)
              /\ vgrid[(out.a * GridWidth(width, edge)) + out.b] = Sentinel

\* the first line was removed and the replay ended in a collision
C8_Witness ==
    /\ pc = "exit" /\ vsol = Dropped(solution, 1) /\ out.msg = "collision"

\* the piece's angle 0 ownership mask: bit (row, col) of the window of the
\* row-major position of piece m
Mask0(g, m, w, h, e) ==
    [rc \in (0..(e - 1)) \X (0..(e - 1)) |->
        IF g[(((m % w) * (e - 1)) + rc[2])
               + ((((m \div w) * (e - 1)) + rc[1]) * GridWidth(w, e))] = m
          THEN "1" ELSE "0"]

\* a square mask turned clockwise by a quarter turn, `turns' times
RECURSIVE RotCW(_, _, _)
RotCW(mask, e, turns) ==
    IF turns = 0 THEN mask
    ELSE RotCW([rc \in DOMAIN mask |-> mask[<<e - 1 - rc[2], rc[1]>>]],
               e, turns - 1)

\* the bitmap of a piece file body: bit (row, col)
BitsOf(body, e) ==
    [rc \in (0..(e - 1)) \X (0..(e - 1)) |-> body[(rc[1] * (e + 1)) + rc[2] + 1]]

\* C9: the bitmap written to a piece's file equals the piece's angle 0
\* ownership mask rotated clockwise by the angle of its ledger entry.
C9_ClockwiseBitmap ==
    (pc \in {"pieces", "outputsvg"}) =>
        \A m \in 0..(n - 1) :
            BitsOf(files[solution[m + 1][1]], edge)
              = RotCW(Mask0(grid, m, width, height, edge), edge,
                      solution[m + 1][2] \div 90)

\* C10: the ledger of the whole puzzle turned by 90, 180 or 270 degrees
\* (180 for any width and height) is accepted with the verdict valid.
C10_TurnedValid ==
    (pc = "exit" /\ WholeTurned) => (out.msg = "valid" /\ out.exit = 0)

\* C11: the generator writes exactly width*height ledger entries and exactly
\* width*height distinct piece files; entry k names the file identifier
\* assigned to position k and records the angle, one of 0, 90, 180, 270,
\* under which the bitmap of piece k was written into that very file.
C11_LedgerEntries ==
    /\ (pc \in {"pieces", "outputsvg"}) =>
          /\ Len(solution) = n
          /\ Cardinality(DOMAIN files) = n
          /\ \A k \in 0..(n - 1) :
                /\ solution[k + 1][1] = piece[k]
                /\ solution[k + 1][2] \in Angles
                /\ piece[k] \in DOMAIN files
                /\ files[piece[k]]
                     = PbmBody(grid, k, solution[k + 1][2] \div 90,
                               width, height, edge)
    /\ (pc = "outputsvg") => n = width * height

\* all six pieces of a puzzle are written, the first one turned by 270
\* degrees into a file that is not p0000.pbm
C11_Witness ==
    /\ pc = "outputsvg" /\ width * height = 6
    /\ Len(solution) = 6 /\ Cardinality(DOMAIN files) = 6
    /\ solution[1][2] = 270 /\ solution[1][1] # 0

\* C12: a ledger line whose name or angle cannot be read, or which names a
\* piece file that cannot be opened, makes the validator abort with non-zero
\* status without placing that entry; it never reaches the completeness scan
\* and never prints valid.
C12_MalformedAborts ==
    \A m \in 1..Len(vsol) :
        (vsol[m][2] = NoAngle \/ vsol[m][1] \notin DOMAIN files) =>
            /\ vpiece < m
            /\ pc # "testgrid"
            /\ out.msg # "valid"
            /\ (pc = "exit") => out.exit # 0

\* the rows of a piece file are exactly e rows of exactly e characters 0 or 1
WellFormed(body, e) ==
    /\ Len(body) = e * (e + 1)
    /\ \A c \in 1..Len(body) :
          IF c % (e + 1) = 0 THEN body[c] = NL ELSE body[c] \in {"0", "1"}

\* C13: when a referenced piece bitmap is not exactly edge rows of exactly
\* edge characters 0 or 1 (a row too short or too long, a row missing, a row
\* too many, another character), the validator aborts with a malformed-piece
\* error and non-zero status and never prints valid.
C13_MalformedPiece ==
    (pc = "exit" /\ \E m \in 1..Len(vsol) :
                        /\ vsol[m][1] \in DOMAIN files
                        /\ ~WellFormed(files[vsol[m][1]], edge)) =>
        /\ out.msg = "badfile"
        /\ out.exit # 0

\* C14: the generator's output is a function of width, height, edge and the
\* pseudo-random sequence only: a second run with the same parameters, the
\* same sequence (hence the same file numbers) and the same rotations has the
\* same grid and writes the same bitmaps, whatever else differs between the
\* runs (here: what the memory behind the grid holds).
C14_Deterministic ==
    (pc \in {"pieces", "outputsvg"}) =>
        \A p \in Streams :
            (piece = PiecesOf(width, height, edge, p)) =>
                LET g1 == GridOf(width, height, edge, Sentinel, p)
                    g2 == GridOf(width, height, edge,
                                 (width * height) - 1, p)
                IN (grid \in {g1, g2}) =>
                      /\ JunkVals(width, height)
                           = {Sentinel, (width * height) - 1}
                      /\ \A x \in Cells(width, height, edge) : g1[x] = g2[x]
                      /\ \A m \in 0..(n - 1) :
                            /\ files[solution[m + 1][1]]
                                 = PbmBody(g1, m, solution[m + 1][2] \div 90,
                                           width, height, edge)
                            /\ files[solution[m + 1][1]]
                                 = PbmBody(g2, m, solution[m + 1][2] \div 90,
                                           width, height, edge)

\* C15: in each of the three phases of dogrid the neighbour whose value is
\* copied is already resolved when it is read: no phase copies the sentinel
\* into a cell.
C15_ReadsResolved ==
    [][(pc \in {"vert", "horiz", "corner"}) =>
          grid'[ik + (jk * GridWidth(width, edge))] # Sentinel]_vars

\* x is an interior seam column (or y an interior seam row) of a grid of
\* extent g: a multiple of edge-1 strictly between the borders
IsSeam(x, g, e) == (x % (e - 1) = 0) /\ (0 < x) /\ (x < g - 1)

\* the piece column (or row) whose window alone contains coordinate x, which
\* is no seam
PieceAt(x, g, e) == IF x = g - 1 THEN (x \div (e - 1)) - 1 ELSE x \div (e - 1)

\* C16: after initgrid, before dogrid, cell (x, y) holds the sentinel if and
\* only if x is an interior seam column or y is an interior seam row; every
\* other cell holds i + j*width of the one piece (i, j) whose window
\* contains it.
C16_InitPattern ==
    (pc = "vert" /\ ik = edge - 1 /\ jk = 0) =>
        LET gw == GridWidth(width, edge)
            gh == GridHeight(height, edge)
        IN \A x \in 0..(gw - 1), y \in 0..(gh - 1) :
              IF IsSeam(x, gw, edge) \/ IsSeam(y, gh, edge)
                THEN grid[x + (y * gw)] = Sentinel
                ELSE grid[x + (y * gw)]
                       = PieceAt(x, gw, edge) + (PieceAt(y, gh, edge) * width)

\* initgrid has run on a puzzle of 2 by 3 pieces with edge 3: the seams are
\* unset, the left piece of the middle row owns its centre only
C16_Witness ==
    /\ pc = "vert" /\ ik = edge - 1 /\ jk = 0
    /\ width = 2 /\ height = 3 /\ edge = 3
    /\ grid[1 + (3 * 5)] = 2 /\ grid[2 + (3 * 5)] = Sentinel
    /\ grid[0 + (2 * 5)] = Sentinel /\ grid[1 + (2 * 5)] = Sentinel
    /\ grid[0] = 0 /\ grid[4 + (6 * 5)] = 5

\* C17: after dogrid every non-corner cell of a vertical seam holds the
\* index of the piece left or right of the seam, every non-corner cell of a
\* horizontal seam the index of the piece above or below, and every corner
\* cell the index of one of the four pieces that meet there.
C17_SeamOwners ==
    (pc = "outputpbm") =>
        LET gw == GridWidth(width, edge)
            gh == GridHeight(height, edge)
            step == edge - 1
        IN \A x \in 0..(gw - 1), y \in 0..(gh - 1) :
              LET v == grid[x + (y * gw)]
                  i == x \div step
                  j == y \div step
              IN /\ (IsSeam(x, gw, edge) /\ ~IsSeam(y, gh, edge)) =>
                       v \in { (i - 1) + (PieceAt(y, gh, edge) * width),
                               i + (PieceAt(y, gh, edge) * width) }
                 /\ (~IsSeam(x, gw, edge) /\ IsSeam(y, gh, edge)) =>
                       v \in { PieceAt(x, gw, edge) + ((j - 1) * width),
                               PieceAt(x, gw, edge) + (j * width) }
                 /\ (IsSeam(x, gw, edge) /\ IsSeam(y, gh, edge)) =>
                       v \in { (i - 1) + ((j - 1) * width),
                               i + ((j - 1) * width),
                               (i - 1) + (j * width),
                               i + (j * width) }

\* the table of bit coordinates: the grid cell <<column, row>> of bit
\* (lik, ljk) of a piece based at (is, js)
Table(angle, lik, ljk, is, js, e) ==
    IF angle = 0 THEN <<lik + is, ljk + js>>
    ELSE IF angle = 90 THEN <<ljk + is, (e - 1 - lik) + js>>
    ELSE IF angle = 180 THEN <<(e - 1 - lik) + is, (e - 1 - ljk) + js>>
    ELSE <<(e - 1 - ljk) + is, lik + js>>

\* C18: for every angle, every piece base offset and every local coordinate
\* outputpbm and getgrid compute the same grid cell, the one of the table
\* 0 -> (ik+is, jk+js), 90 -> (jk+is, edge-1-ik+js),
\* 180 -> (edge-1-ik+is, edge-1-jk+js), 270 -> (edge-1-jk+is, ik+js); for
\* each angle the mapping is a bijection from [0, edge)^2 onto the window.
C18_SameTable ==
    (pc \in {"pieces", "outputsvg"}) =>
        LET gw == GridWidth(width, edge)
            local == (0..(edge - 1)) \X (0..(edge - 1))
        IN \A angle \in Angles, i \in 0..(width - 1), j \in 0..(height - 1) :
              LET is == i * (edge - 1)
                  js == j * (edge - 1)
                  image == { Table(angle, l[1], l[2], is, js, edge) :
                               l \in local }
              IN /\ \A l \in local :
                       LET t == Table(angle, l[1], l[2], is, js, edge)
                       IN /\ PbmX(angle \div 90, l[1], l[2], is, js, gw, edge)
                               = t[1] + (t[2] * gw)
                          /\ GetX(angle, l[1], l[2], is, js, gw, edge)
                               = t[1] + (t[2] * gw)
                 /\ image = (is..(is + edge - 1)) \X (js..(js + edge - 1))
                 /\ Cardinality(image) = edge * edge

\* pieces of edge 3 have been written under a quarter turn and under three
\* quarter turns
C18_Witness ==
    /\ pc = "outputsvg" /\ edge = 3
    /\ \E k \in 1..Len(solution) : solution[k][2] = 90
    /\ \E k \in 1..Len(solution) : solution[k][2] = 270

\* the local coordinate <<column, row>> outputpbm reads for bit (lik, ljk)
\* under rotation randrot, relative to the base of the piece
LocalOut(randrot, lik, ljk, e) ==
    LET x == PbmX(randrot, lik, ljk, 0, 0, e, e)
    IN <<x % e, x \div e>>

\* the local coordinate <<column, row>> getgrid claims for bit (lik, ljk)
\* of a line with `angle'
LocalIn(angle, lik, ljk, e) ==
    LET x == GetX(angle, lik, ljk, 0, 0, e, e)
    IN <<x % e, x \div e>>

\* C19: the four local mappings compose by angle arithmetic: the mapping of
\* a followed by the mapping of b is the mapping of (a + b) mod 360; the
\* mapping of 90 applied twice is that of 180, and the mapping of 270
\* followed by that of 90 is the identity.
C19_Composition ==
    (pc \in {"pieces", "outputsvg"}) =>
        /\ \A a \in Angles, b \in Angles :
              \A lik \in 0..(edge - 1), ljk \in 0..(edge - 1) :
                 LET o1 == LocalOut(a \div 90, lik, ljk, edge)
                     i1 == LocalIn(a, lik, ljk, edge)
                 IN /\ LocalOut(b \div 90, o1[1], o1[2], edge)
                         = LocalOut(((a + b) % 360) \div 90, lik, ljk, edge)
                    /\ LocalIn(b, i1[1], i1[2], edge)
                         = LocalIn((a + b) % 360, lik, ljk, edge)
        /\ \A lik \in 0..(edge - 1), ljk \in 0..(edge - 1) :
              LET q == LocalOut(1, lik, ljk, edge)
                  t == LocalOut(3, lik, ljk, edge)
              IN /\ LocalOut(1, q[1], q[2], edge) = LocalOut(2, lik, ljk, edge)
                 /\ LocalOut(1, t[1], t[2], edge) = <<lik, ljk>>

\* two pieces of edge 3 have been written, the first under a quarter turn
\* and the second under three quarter turns
C19_Witness ==
    /\ pc \in {"pieces", "outputsvg"} /\ edge = 3 /\ n >= 2
    /\ solution[1][2] = 90 /\ solution[2][2] = 270

\* C20: the validator's position counter starts at 0 and grows by exactly 1
\* with each entry placed, whatever file the entry names (the cells an entry
\* claims are marked with the counter); the completeness scan begins only
\* when the ledger is exhausted, the scan is final, and no grid cell changes
\* once it has begun.
C20_CounterAndScan ==
    [][/\ pc # "exit"
       /\ (pc = "vinitgrid") => (vpiece = 0 /\ vpiece' = 0)
       /\ (pc = "getgrid" /\ pc' = "getgrid") =>
             /\ vpiece' = vpiece + 1
             /\ \A x \in DOMAIN vgrid :
                   vgrid'[x] # vgrid[x] => vgrid'[x] = vpiece
       /\ (pc = "getgrid" /\ pc' # "getgrid") => vpiece' = vpiece
       /\ (pc' = "testgrid") => (pc = "getgrid" /\ vpiece = Len(vsol))
       /\ (pc = "testgrid") =>
             /\ pc' = "exit" /\ vgrid' = vgrid /\ vpiece' = vpiece
             /\ out'.msg \in {"valid", "missing"}
      ]_vars

\* four entries naming shuffled files were placed one after the other and
\* the scan then gave its verdict
C20_Witness ==
    /\ pc = "exit" /\ out.msg = "valid"
    /\ vpiece = 4 /\ Len(vsol) = 4
    /\ vsol[1][1] # 0 /\ vsol[4][1] # 3

\* C21: in every state of the validator, for any ledger whatsoever (more
\* than width*height entries included), every grid cell holds the sentinel
\* or an integer in [0, width*height): the position under which an entry is
\* placed is always a valid piece index.
C21_ValidPieceIndex ==
    (vgrid # <<>>) =>
        \A x \in Cells(width, height, edge) :
            \/ vgrid[x] = Sentinel
            \/ (vgrid[x] >= 0 /\ vgrid[x] < width * height)

\* the grid cells of the edge x edge window of piece m, m = i + j*width
Window(m, w, h, e) ==
    { x \in Cells(w, h, e) :
        /\ (x % GridWidth(w, e)) \in
              ((m % w) * (e - 1))..(((m % w) * (e - 1)) + e - 1)
        /\ (x \div GridWidth(w, e)) \in
              ((m \div w) * (e - 1))..(((m \div w) * (e - 1)) + e - 1) }

\* the 1 bits of all piece files: <<file number, offset>>
OneBits(dir) ==
    { fc \in UNION { {f} \X DOMAIN dir[f] : f \in DOMAIN dir } :
        dir[fc[1]][fc[2]] = "1" }

\* C22: after generation every grid cell that holds piece index m lies
\* inside the window of piece m (m = i + j*width); every grid cell holds a
\* piece index, so it is a 1 bit of exactly one piece file, and the 1 bits of
\* all piece files together number gw*gh.
C22_WindowContainment ==
    /\ (pc \in {"pieces", "outputsvg"}) =>
          \A x \in Cells(width, height, edge) :
              /\ grid[x] \in 0..((width * height) - 1)
              /\ x \in Window(grid[x], width, height, edge)
    /\ (pc = "outputsvg") =>
          Cardinality(OneBits(files)) = GridSize(width, height, edge)

\* C23: for every outcome of the random choices every piece owns at least
\* one grid cell after generation (so its bitmap has a 1 bit), and dogrid
\* never changes a cell that is not on an interior seam column or row.
C23_EveryPieceOwns ==
    [][/\ (pc' = "outputpbm") =>
             \A m \in 0..((width * height) - 1) :
                 \E x \in Cells(width, height, edge) : grid'[x] = m
       /\ (pc \in {"vert", "horiz", "corner"}) =>
             \A x \in Cells(width, height, edge) :
                 (grid'[x] # grid[x]) =>
                     \/ IsSeam(x % GridWidth(width, edge),
                               GridWidth(width, edge), edge)
                     \/ IsSeam(x \div GridWidth(width, edge),
                               GridHeight(height, edge), edge)
      ]_vars

\* C24: while the validator reads the ledger every grid cell is write-once:
\* a cell that holds a piece index keeps it in every later state, the set of
\* claimed cells only grows, and when a collision is detected the colliding
\* cell still holds its earlier owner.
C24_WriteOnce ==
    [][(pc = "getgrid") =>
          /\ \A x \in Cells(width, height, edge) :
                (vgrid[x] # Sentinel) => (vgrid'[x] = vgrid[x])
          /\ (out'.msg = "collision") =>
                \E x \in DOMAIN vgrid :
                    /\ hits'[x] # hits[x]
                    /\ vgrid[x] # Sentinel
                    /\ vgrid'[x] = vgrid[x]
                    /\ out'.a = vgrid[x]
      ]_vars

\* the second entry claimed cells beside those of the first, and the third
\* then ran into a cell of the first, which kept its owner
C24_Witness ==
    /\ pc = "exit" /\ out.msg = "collision" /\ out.a = 0 /\ out.b = 2
    /\ \E x \in Cells(width, height, edge) : hits[x] = 2 /\ vgrid[x] = 0
    /\ \E x \in Cells(width, height, edge) : vgrid[x] = 1

\* C25: a ledger entry whose angle is an integer other than 0, 90, 180 or
\* 270 is never placed on the grid: the validator aborts with an error
\* instead of placing the piece under some rotation.
C25_OddAngleRejected ==
    \A m \in 1..Len(vsol) :
        (vsol[m][2] # NoAngle /\ vsol[m][2] \notin Angles) =>
            /\ vpiece < m
            /\ pc # "testgrid"
            /\ out.msg # "valid"

\* C26: for all valid width, height, edge, width # height included, every
\* grid index outputpbm reads for a piece and every grid index getgrid
\* computes when it replays that piece's own ledger line lies in
\* [0, gw*gh): no access falls outside the allocated grid.
C26_InBounds ==
    (pc \in {"pieces", "outputsvg"}) =>
        \A m \in 0..(n - 1) :
            \A lik \in 0..(edge - 1), ljk \in 0..(edge - 1) :
                /\ PbmX(solution[m + 1][2] \div 90, lik, ljk,
                        TargetI(m, width) * (edge - 1),
                        TargetJ(m, height) * (edge - 1),
                        GridWidth(width, edge), edge)
                     \in Cells(width, height, edge)
                /\ BitX(m, solution[m + 1][2], lik + (ljk * edge),
                        width, height, edge)
                     \in Cells(width, height, edge)

\* cells x and y of a grid of width gw are horizontal or vertical neighbours
Adjacent(x, y, gw) ==
    \/ (y = x + 1 /\ (x % gw) # gw - 1)
    \/ (x = y + 1 /\ (y % gw) # gw - 1)
    \/ y = x + gw
    \/ x = y + gw

\* the cells of S joined to a cell of `seen' by a path of neighbours in S
RECURSIVE Joined(_, _, _)
Joined(seen, S, gw) ==
    LET more == { y \in S \ seen : \E x \in seen : Adjacent(x, y, gw) }
    IN IF more = {} THEN seen ELSE Joined(seen \cup more, S, gw)

\* the set S of cells is 4-connected
Connected(S, gw) ==
    (S = {}) \/ (Joined({CHOOSE x \in S : TRUE}, S, gw) = S)

\* C27: after generation the set of grid cells owned by each piece is
\* 4-connected: any two cells of a piece are joined by a path of
\* horizontally or vertically adjacent cells of that piece.
C27_Connected ==
    (pc = "outputpbm") =>
        \A m \in 0..((width * height) - 1) :
            Connected(Owned(grid, m, width, height, edge),
                      GridWidth(width, edge))

====
